---- MODULE Spec2Model ----
(***************************************************************************)
(* A model of deblurringUtils.py: the Haar matrix builder, the Toeplitz    *)
(* blur matrix builder, the fast Kronecker-vector product, the operator    *)
(* factory genBH, vectorize / unvectorize and getrow.                      *)
(*                                                                         *)
(* Numbers.  The program computes in floating point; the model computes in *)
(* exact arithmetic.  Every value the program produces from integer inputs *)
(* lies in the field Q(sqrt 2) (the only irrational is 1/sqrt(n) for n a   *)
(* power of two), so a number is a triple <<a, b, d>> standing for         *)
(* (a + b*sqrt(2)) / d, kept in lowest terms with d > 0.  Two numbers are  *)
(* equal exactly when their triples are equal.                             *)
(*                                                                         *)
(* Arrays.  A vector is a sequence of numbers, a matrix a sequence of rows *)
(* (each a sequence of numbers).  TLA+ sequences count from 1; the source  *)
(* counts from 0, so source index k is model index k+1.                    *)
(***************************************************************************)
EXTENDS Integers, Sequences, FiniteSets, TLC

VARIABLES pc, calls, rets, stack, hval

vars == <<pc, calls, rets, stack, hval>>

(***************************************************************************)
(* Bounds of the model.                                                    *)
(***************************************************************************)
\* largest n passed to haarMatrix and largest m passed to blurMatrix
MaxN == 8
\* largest image size n passed to genBH
MaxImg == 4
\* largest blur width
MaxWidth == 4
\* largest number of rows or columns of an argument of fastKronVecProd,
\* vectorize and unvectorize
MaxDim == 2
\* depth of the interpreter's call stack at which RecursionError is raised
RecursionLimit == 6

\* nonzero integer values the inputs are built from
Vals == {-1, 2}

(***************************************************************************)
(* Exact arithmetic in Q(sqrt 2).                                          *)
(***************************************************************************)
Abs(x) == IF x < 0 THEN -x ELSE x

RECURSIVE GCD(_, _)
GCD(a, b) == IF b = 0 THEN a ELSE GCD(b, a % b)

NumNorm(a, b, d) ==
    LET g == GCD(GCD(Abs(a), Abs(b)), d)
    IN  <<a \div g, b \div g, d \div g>>

\* the integer k
Num(k) == <<k, 0, 1>>

Zero == Num(0)

One == Num(1)

\* p / q for integers p and q > 0 (the source's true division 1/width)
Rat(p, q) == NumNorm(p, 0, q)

NumAdd(x, y) ==
    NumNorm(x[1] * y[3] + y[1] * x[3], x[2] * y[3] + y[2] * x[3], x[3] * y[3])

NumMul(x, y) ==
    NumNorm(x[1] * y[1] + 2 * x[2] * y[2], x[1] * y[2] + x[2] * y[1], x[3] * y[3])

RECURSIVE Pow2(_)
Pow2(k) == IF k <= 0 THEN 1 ELSE 2 * Pow2(k - 1)

\* np.power(2, -e/2) for an integer e >= 0: 2^(-e/2) is 1/2^(e/2) when e is
\* even and sqrt(2)/2^((e+1)/2) when e is odd
Pow2NegHalf(e) ==
    IF e % 2 = 0 THEN <<1, 0, Pow2(e \div 2)>> ELSE <<0, 1, Pow2((e + 1) \div 2)>>

\* int(np.log2(n)) for n >= 1: the largest k with 2^k <= n
RECURSIVE Log2(_)
Log2(n) == IF n <= 1 THEN 0 ELSE 1 + Log2(n \div 2)

\* int(2**np.ceil(np.log2(n))): the least power of two >= n for n >= 1; for
\* n = 0, log2 is -inf, 2**-inf is 0.0 and the result is 0
NextPow2(n) ==
    IF n = 0 THEN 0
    ELSE IF Pow2(Log2(n)) = n THEN n ELSE 2 * Pow2(Log2(n))

\* 1/np.sqrt(n) for n a power of two
InvSqrt(n) == Pow2NegHalf(Log2(n))

\* sum of a sequence of numbers
RECURSIVE NumSum(_)
NumSum(s) == IF s = <<>> THEN Zero ELSE NumAdd(s[1], NumSum(Tail(s)))

(***************************************************************************)
(* Dense array primitives of the numerical library.                        *)
(***************************************************************************)
Rows(M) == Len(M)

Cols(M) == Len(M[1])

\* M.T
Transpose(M) == [j \in 1..Cols(M) |-> [i \in 1..Rows(M) |-> M[i][j]]]

\* A @ B
MatMul(A, B) ==
    [i \in 1..Rows(A) |->
        [j \in 1..Cols(B) |->
            NumSum([k \in 1..Cols(A) |-> NumMul(A[i][k], B[k][j])])]]

\* np.kron(A, B): block (i, j) is A[i][j] * B
kron(A, B) ==
    [x \in 1..(Rows(A) * Rows(B)) |->
        [y \in 1..(Cols(A) * Cols(B)) |->
            NumMul(A[((x - 1) \div Rows(B)) + 1][((y - 1) \div Cols(B)) + 1],
                   B[((x - 1) % Rows(B)) + 1][((y - 1) % Cols(B)) + 1])]]

\* np.eye(n)
eye(n) == [i \in 1..n |-> [j \in 1..n |-> IF i = j THEN One ELSE Zero]]

\* np.diag(d)
diag(d) == [i \in 1..Len(d) |-> [j \in 1..Len(d) |-> IF i = j THEN d[i] ELSE Zero]]

\* np.hstack((L, R))
hstack(L, R) == [i \in 1..Rows(L) |-> L[i] \o R[i]]

\* scipy.linalg.toeplitz(c, r): entry (i, j) is c[i-j] for i >= j and r[j-i]
\* otherwise
toeplitz(c, r) ==
    [i \in 1..Len(c) |->
        [j \in 1..Len(r) |-> IF i >= j THEN c[i - j + 1] ELSE r[j - i + 1]]]

\* scipy.linalg.khatri_rao(A, C): column j is kron(A[:, j], C[:, j])
khatri_rao(A, C) ==
    [x \in 1..(Rows(A) * Rows(C)) |->
        [j \in 1..Cols(A) |->
            NumMul(A[((x - 1) \div Rows(C)) + 1][j], C[((x - 1) % Rows(C)) + 1][j])]]

\* M.sum(axis=1): the sum of each row
SumAxis1(M) == [i \in 1..Rows(M) |-> NumSum(M[i])]

(***************************************************************************)
(* Values a call returns: a vector, a matrix, or a raised exception.       *)
(***************************************************************************)
Vec(v) == [kind |-> "vector", val |-> v]

Mat(M) == [kind |-> "matrix", val |-> M]

Raise(e) == [kind |-> "error", val |-> e]

(***************************************************************************)
(* np.reshape(..., order='F'): column-major reshapes.                      *)
(***************************************************************************)
\* the reshape in row-major order (order='C'): entry (i, j) is v[i*c + j]
reshapeC(v, r, c) ==
    IF Len(v) # r * c THEN Raise("ValueError")
    ELSE Mat([i \in 1..r |-> [j \in 1..c |-> v[(i - 1) * c + j]]])

\* np.reshape(v, (r, c), order='F') of a vector: entry (i, j) (from 0) is
\* v[j*r + i]; ValueError when the sizes differ
reshapeF(v, r, c) ==
    IF Len(v) # r * c THEN Raise("ValueError")
    ELSE Mat([i \in 1..r |-> [j \in 1..c |-> v[(j - 1) * r + i]]])

\* the flattening in row-major order (order='C'): the rows one after another
flattenC(im, size) ==
    IF Rows(im) * Cols(im) # size THEN Raise("ValueError")
    ELSE Vec([k \in 1..size |-> im[((k - 1) \div Cols(im)) + 1][((k - 1) % Cols(im)) + 1]])

\* np.reshape(im, size, order='F') of a matrix: the columns one after another
flattenF(im, size) ==
    IF Rows(im) * Cols(im) # size THEN Raise("ValueError")
    ELSE Vec([k \in 1..size |-> im[((k - 1) % Rows(im)) + 1][((k - 1) \div Rows(im)) + 1]])

(***************************************************************************)
(* haarMatrix(n, normalized): the body of one activation.  The recursion   *)
(* itself is the call stack of the state machine below.                    *)
(***************************************************************************)
\* np.array([[1,1], [1,-1]])
haarBase == << <<One, One>>, <<One, Num(-1)>> >>

\* H = hstack((kron(Hprev, [[1],[1]]), kron(eye(n//2), [[1],[-1]])))
haarCombine(Hprev, n) ==
    hstack(kron(Hprev, << <<One>>, <<One>> >>),
           kron(eye(n \div 2), << <<One>>, <<Num(-1)>> >>))

\* the level scale without the halving of the exponent: 2^(-(log2(n)-r))
haarLevelScaleNoHalf(n, r) == Pow2NegHalf(2 * (Log2(n) - r))

\* the scale of the columns start .. start+2^r-1 (from 0) at level r
haarLevelScale(n, r) == Pow2NegHalf(Log2(n) - r)

\* for r in np.arange(int(np.log2(n))): d[start:start+2**r] = ...; start += 2**r
RECURSIVE haarDLoop(_, _, _, _)
haarDLoop(d, start, r, n) ==
    IF r >= Log2(n) THEN d
    ELSE haarDLoop([k \in 1..Len(d) |->
                       IF start + 1 <= k /\ k <= start + Pow2(r)
                       THEN haarLevelScale(n, r) ELSE d[k]],
                   start + Pow2(r), r + 1, n)

\* d = np.zeros(n); d[0] = 1/np.sqrt(n); start = 1; the loop
haarD(n) == haarDLoop([k \in 1..n |-> IF k = 1 THEN InvSqrt(n) ELSE Zero], 1, 0, n)

\* if normalized: H = H @ np.diag(d)
haarNormalize(H, n, normalized) == IF normalized THEN MatMul(H, diag(haarD(n))) ELSE H

(***************************************************************************)
(* blurMatrix(m, width)                                                    *)
(***************************************************************************)
\* the half length rounded down: (width-1)//2
halflenFloor(width) == (width - 1) \div 2

\* int(np.ceil((width-1)/2))
halflen(width) == width \div 2

\* a generator filled over the whole width: c[:width] = 1/width
blurGeneratorWide(m, width) ==
    [k \in 1..m |-> IF k <= width THEN Rat(1, width) ELSE Zero]

\* c = np.zeros(m); c[:1+halflen] = 1/width (the same for r)
blurGenerator(m, width) ==
    [k \in 1..m |-> IF k <= 1 + halflen(width) THEN Rat(1, width) ELSE Zero]

blurMatrix(m, width) == toeplitz(blurGenerator(m, width), blurGenerator(m, width))

(***************************************************************************)
(* fastKronVecProd(A, B, v)                                                *)
(***************************************************************************)
fastKronVecProd(A, B, v) ==
    LET vcols == reshapeF(v, Cols(B), Cols(A))
    IN  IF vcols.kind = "error" THEN vcols
        ELSE Vec(SumAxis1(khatri_rao(A, MatMul(B, vcols.val))))

\* vectorized2DBlurMatrix(m, n, width): the dense matrix kron(Brows, Bcols)
vectorized2DBlurMatrix(m, n, width) == kron(blurMatrix(n, width), blurMatrix(m, width))

(***************************************************************************)
(* vectorize(im), unvectorize(vec, m, n)                                   *)
(***************************************************************************)
vectorize(im) == flattenF(im, Rows(im) * Cols(im))

unvectorize(vec, m, n) == reshapeF(vec, m, n)

(***************************************************************************)
(* genBH(n, blursize): the closures of the two operators, once haarMatrix  *)
(* has returned Hn.                                                        *)
(***************************************************************************)
genBH(n, blursize, Hn) ==
    [kind |-> "operators",
     val  |-> [shape  |-> n * n,
               Hn     |-> Hn,
               HnT    |-> Transpose(Hn),
               Brows  |-> blurMatrix(n, blursize),
               BrowsT |-> Transpose(blurMatrix(n, blursize)),
               Bcols  |-> blurMatrix(n, blursize),
               BcolsT |-> Transpose(blurMatrix(n, blursize))]]

applyH(c, v) == fastKronVecProd(c.Hn, c.Hn, v)

\* the adjoint closure built on the factors themselves, not their transposes
applyHTNoTranspose(c, v) == fastKronVecProd(c.Hn, c.Hn, v)

applyHT(c, v) == fastKronVecProd(c.HnT, c.HnT, v)

applyB(c, v) == fastKronVecProd(c.Brows, c.Bcols, v)

applyBT(c, v) == fastKronVecProd(c.BrowsT, c.BcolsT, v)

\* LinearOperator((n**2, n**2), ...): the wrapper rejects an argument, and a
\* result, whose length is not the declared dimension
checked(c, x, y) ==
    IF Len(x) # c.shape THEN Raise("ValueError")
    ELSE IF y.kind = "error" THEN y
    ELSE IF Len(y.val) # c.shape THEN Raise("ValueError")
    ELSE y

\* o.matvec(x) for o one of "H", "B"
matvec(c, o, x) == checked(c, x, IF o = "H" THEN applyH(c, x) ELSE applyB(c, x))

\* o.rmatvec(x)
rmatvec(c, o, x) == checked(c, x, IF o = "H" THEN applyHT(c, x) ELSE applyBT(c, x))

(***************************************************************************)
(* getrow(B, i)                                                            *)
(***************************************************************************)
\* the unit vector with ei[i] = 1.0 instead of ei[i-1]
unitVectorOffByOne(size, i) == [k \in 1..size |-> IF k = i + 1 THEN One ELSE Zero]

\* ei = np.zeros(B.shape[0]); ei[i-1] = 1.0 (index -1 is the last entry)
unitVector(size, i) ==
    [k \in 1..size |-> IF k = (IF i - 1 < 0 THEN size + i ELSE i) THEN One ELSE Zero]

\* (B.T @ ei)[np.newaxis]: B.T applies B's rmatvec; the result is one row
getrow(c, o, i) ==
    LET y == rmatvec(c, o, unitVector(c.shape, i))
    IN  IF y.kind = "error" THEN y ELSE Mat(<<y.val>>)

(***************************************************************************)
(* Inputs.                                                                 *)
(***************************************************************************)
\* the dense vector 1, 2, ..., len
Ramp(len) == [k \in 1..len |-> Num(k)]

\* vectors of a length: zero, one nonzero entry, and the dense ramp
VecInputs(len) ==
    {[k \in 1..len |-> Zero]}
    \cup {[k \in 1..len |-> IF k = p THEN Num(x) ELSE Zero] : p \in 1..len, x \in Vals}
    \cup {Ramp(len)}

\* matrices of a shape: a single entry 2, and two dense ones (the second with
\* entries of both signs)
MatInputs(p, q) ==
    {[i \in 1..p |-> [j \in 1..q |-> IF <<i, j>> = e THEN Num(2) ELSE Zero]] :
        e \in (1..p) \X (1..q)}
    \cup {[i \in 1..p |-> [j \in 1..q |-> Num((i - 1) * q + j)]]}
    \cup {[i \in 1..p |-> [j \in 1..q |-> Num(i - 2 * j)]]}

Dims == 1..MaxDim

(***************************************************************************)
(* The state machine: a caller makes a call (calls), the call returns a    *)
(* value or raises (rets); the caller may then feed an argument or a       *)
(* result to a further call.  pc is "idle" before the first call,          *)
(* "haar_call" when the top activation of haarMatrix is about to run,      *)
(* "haar_ret" when an activation has returned hval to the one below, and   *)
(* "ret" when the last call of calls has returned.                         *)
(***************************************************************************)
Init ==
    /\ pc = "idle"
    /\ calls = <<>>
    /\ rets = <<>>
    /\ stack = <<>>
    /\ hval = <<>>

Last(s) == s[Len(s)]

\* what the outermost haarMatrix activation's result becomes: the value of
\* haarMatrix itself, or genBH's pair of operators built on it
TopResult(H) ==
    IF Last(calls).op = "haarMatrix" THEN Mat(H)
    ELSE genBH(Last(calls).n, Last(calls).blursize, H)

\* return H from the top activation
HaarReturn(H) ==
    IF Len(stack) = 1
    THEN /\ stack' = <<>>
         /\ hval' = <<>>
         /\ pc' = "ret"
         /\ rets' = Append(rets, TopResult(H))
         /\ UNCHANGED calls
    ELSE /\ stack' = SubSeq(stack, 1, Len(stack) - 1)
         /\ hval' = H
         /\ pc' = "haar_ret"
         /\ UNCHANGED <<calls, rets>>

CallHaarMatrix ==
    /\ pc = "idle"
    /\ \E n \in 1..MaxN, normalized \in BOOLEAN :
          /\ calls' = <<[op |-> "haarMatrix", n |-> n, normalized |-> normalized]>>
          /\ stack' = <<[n |-> n, normalized |-> normalized]>>
    /\ pc' = "haar_call"
    /\ UNCHANGED <<rets, hval>>

\* Hn = haarMatrix(n, normalized=True)
CallGenBH ==
    /\ pc = "idle"
    /\ \E n \in 1..MaxImg, blursize \in 1..MaxWidth :
          /\ calls' = <<[op |-> "genBH", n |-> n, blursize |-> blursize]>>
          /\ stack' = <<[n |-> n, normalized |-> TRUE]>>
    /\ pc' = "haar_call"
    /\ UNCHANGED <<rets, hval>>

\* n = int(2**np.ceil(np.log2(n))); if n == 2: the base case
HaarBaseCase ==
    /\ pc = "haar_call"
    /\ NextPow2(Last(stack).n) = 2
    /\ HaarReturn(haarNormalize(haarBase, 2, Last(stack).normalized))

\* else: Hprev = haarMatrix(n//2)
HaarRecurse ==
    /\ pc = "haar_call"
    /\ NextPow2(Last(stack).n) # 2
    /\ Len(stack) < RecursionLimit
    /\ stack' = Append([stack EXCEPT ![Len(stack)].n = NextPow2(Last(stack).n)],
                       [n |-> NextPow2(Last(stack).n) \div 2, normalized |-> FALSE])
    /\ UNCHANGED <<pc, calls, rets, hval>>

\* the recursive call at the interpreter's recursion limit raises
\* RecursionError, which no activation catches
HaarOverflow ==
    /\ pc = "haar_call"
    /\ NextPow2(Last(stack).n) # 2
    /\ Len(stack) >= RecursionLimit
    /\ stack' = <<>>
    /\ hval' = <<>>
    /\ pc' = "ret"
    /\ rets' = Append(rets, Raise("RecursionError"))
    /\ UNCHANGED calls

\* the rest of the activation, after Hprev = haarMatrix(n//2) has returned
HaarResume ==
    /\ pc = "haar_ret"
    /\ HaarReturn(haarNormalize(haarCombine(hval, Last(stack).n), Last(stack).n,
                                Last(stack).normalized))

CallBlurMatrix ==
    /\ pc = "idle"
    /\ \E m \in 1..MaxN, width \in 1..MaxWidth :
          /\ calls' = <<[op |-> "blurMatrix", m |-> m, width |-> width]>>
          /\ rets' = <<Mat(blurMatrix(m, width))>>
    /\ pc' = "ret"
    /\ UNCHANGED <<stack, hval>>

\* v has the length cols(A)*cols(B) the function expects, or one more
CallFastKronVecProd ==
    /\ pc = "idle"
    /\ \E p \in Dims, q \in Dims, r \in Dims, s \in Dims :
          \E A \in MatInputs(p, q), B \in MatInputs(r, s) :
             \E v \in VecInputs(q * s) \cup {Ramp(q * s + 1)} :
                /\ calls' = <<[op |-> "fastKronVecProd", A |-> A, B |-> B, v |-> v]>>
                /\ rets' = <<fastKronVecProd(A, B, v)>>
    /\ pc' = "ret"
    /\ UNCHANGED <<stack, hval>>

CallVectorize ==
    /\ pc = "idle"
    /\ \E m \in Dims, n \in Dims :
          \E im \in MatInputs(m, n) :
             /\ calls' = <<[op |-> "vectorize", im |-> im]>>
             /\ rets' = <<vectorize(im)>>
    /\ pc' = "ret"
    /\ UNCHANGED <<stack, hval>>

\* vec has the length m*n the function expects, or one more
CallUnvectorize ==
    /\ pc = "idle"
    /\ \E m \in Dims, n \in Dims :
          \E vec \in VecInputs(m * n) \cup {Ramp(m * n + 1)} :
             /\ calls' = <<[op |-> "unvectorize", vec |-> vec, m |-> m, n |-> n]>>
             /\ rets' = <<unvectorize(vec, m, n)>>
    /\ pc' = "ret"
    /\ UNCHANGED <<stack, hval>>

\* unvectorize(vectorize(im), m, n)
ThenUnvectorize(m, n) ==
    /\ pc = "ret"
    /\ Len(calls) = 1
    /\ calls[1].op = "vectorize"
    /\ rets[1].kind = "vector"
    /\ calls' = Append(calls, [op |-> "unvectorize", vec |-> rets[1].val, m |-> m, n |-> n])
    /\ rets' = Append(rets, unvectorize(rets[1].val, m, n))
    /\ UNCHANGED <<pc, stack, hval>>

\* vectorize(unvectorize(vec, m, n))
ThenVectorize ==
    /\ pc = "ret"
    /\ Len(calls) = 1
    /\ calls[1].op = "unvectorize"
    /\ rets[1].kind = "matrix"
    /\ calls' = Append(calls, [op |-> "vectorize", im |-> rets[1].val])
    /\ rets' = Append(rets, vectorize(rets[1].val))
    /\ UNCHANGED <<pc, stack, hval>>

\* the operators genBH returned, when it returned
HasOperators == pc = "ret" /\ calls[1].op = "genBH" /\ rets[1].kind = "operators"

\* o.matvec(v), or o.rmatvec(v) when adj, on a fresh vector v of the declared
\* dimension
Apply(o, adj) ==
    /\ HasOperators
    /\ Len(calls) = 1
    /\ \E v \in VecInputs(rets[1].val.shape) :
          /\ calls' = Append(calls, [op |-> "apply", o |-> o, adj |-> adj, v |-> v])
          /\ rets' = Append(rets, IF adj THEN rmatvec(rets[1].val, o, v)
                                  ELSE matvec(rets[1].val, o, v))
    /\ UNCHANGED <<pc, stack, hval>>

\* a second application of the same operator, forward or adjoint, to the first
\* one's argument (fromRet = FALSE) or to its result (fromRet = TRUE)
ApplyAgain(adj, fromRet) ==
    /\ HasOperators
    /\ Len(calls) = 2
    /\ calls[2].op = "apply"
    /\ fromRet => rets[2].kind = "vector"
    /\ LET o == calls[2].o
           v == IF fromRet THEN rets[2].val ELSE calls[2].v
       IN  /\ calls' = Append(calls, [op |-> "apply", o |-> o, adj |-> adj, v |-> v])
           /\ rets' = Append(rets, IF adj THEN rmatvec(rets[1].val, o, v)
                                   ELSE matvec(rets[1].val, o, v))
    /\ UNCHANGED <<pc, stack, hval>>

Getrow(o) ==
    /\ HasOperators
    /\ Len(calls) = 1
    /\ \E i \in 0..rets[1].val.shape :
          /\ calls' = Append(calls, [op |-> "getrow", o |-> o, i |-> i])
          /\ rets' = Append(rets, getrow(rets[1].val, o, i))
    /\ UNCHANGED <<pc, stack, hval>>

Next ==
    \/ CallHaarMatrix
    \/ CallGenBH
    \/ HaarBaseCase
    \/ HaarRecurse
    \/ HaarOverflow
    \/ HaarResume
    \/ CallBlurMatrix
    \/ CallFastKronVecProd
    \/ CallVectorize
    \/ CallUnvectorize
    \/ \E m \in Dims, n \in Dims : ThenUnvectorize(m, n)
    \/ ThenVectorize
    \/ \E o \in {"H", "B"}, adj \in BOOLEAN : Apply(o, adj)
    \/ \E adj \in BOOLEAN, fromRet \in BOOLEAN : ApplyAgain(adj, fromRet)
    \/ \E o \in {"H", "B"} : Getrow(o)

Spec == Init /\ [][Next]_vars

(***************************************************************************)
(* Vocabulary of the properties.                                           *)
(***************************************************************************)
\* the call number k was to function f
Called(k, f) == Len(calls) >= k /\ Len(rets) >= k /\ calls[k].op = f

\* the last call has returned and it was call number k
Returned(k) == pc = "ret" /\ Len(calls) = k /\ Len(rets) = k

\* ceil(x / 2) for an integer x >= 0
CeilHalf(x) == CHOOSE k \in 0..(x + 1) : 2 * k >= x /\ 2 * (k - 1) < x

\* the power of two 2^ceil(log2 n) for n >= 1
CeilPow2(n) ==
    CHOOSE N \in {Pow2(k) : k \in 0..n} : N >= n /\ (N = 1 \/ N \div 2 < n)

IsPow2(n) == n \in {Pow2(k) : k \in 0..n}

\* x < y for two rational numbers (no sqrt(2) part)
RatLess(x, y) == x[1] * y[3] < y[1] * x[3]

\* the number of nonzero entries of a sequence of numbers
NonZeros(row) == Cardinality({j \in 1..Len(row) : row[j] # Zero})

(***************************************************************************)
(* C1: for A of shape p x q, B of shape r x s and v of length q*s,         *)
(* fastKronVecProd(A, B, v) is a vector of length p*r whose entry i*r+k    *)
(* (from 0) is the sum over j < q and l < s of A[i][j]*B[k][l]*v[j*s+l],   *)
(* the entry of kron(A, B) @ v.                                            *)
(***************************************************************************)
KronEntry(A, B, v, i, k) ==
    NumSum([j \in 1..Cols(A) |->
        NumSum([l \in 1..Cols(B) |->
            NumMul(NumMul(A[i][j], B[k][l]), v[(j - 1) * Cols(B) + l])])])

C1_FastKronVecProdIsKron ==
    (Returned(1) /\ Called(1, "fastKronVecProd")
        /\ Len(calls[1].v) = Cols(calls[1].A) * Cols(calls[1].B))
    => LET A == calls[1].A
           B == calls[1].B
       IN  /\ rets[1].kind = "vector"
           /\ Len(rets[1].val) = Rows(A) * Rows(B)
           /\ \A i \in 1..Rows(A), k \in 1..Rows(B) :
                 rets[1].val[(i - 1) * Rows(B) + k] = KronEntry(A, B, calls[1].v, i, k)

\* a product of a 1 x 2 by a 2 x 2 matrix with a result without zero entries
C1_Witness ==
    /\ Returned(1) /\ Called(1, "fastKronVecProd")
    /\ Rows(calls[1].A) = 1 /\ Cols(calls[1].A) = 2
    /\ Rows(calls[1].B) = 2 /\ Cols(calls[1].B) = 2
    /\ rets[1].kind = "vector"
    /\ \A x \in 1..Len(rets[1].val) : rets[1].val[x] # Zero

(***************************************************************************)
(* C2: vectorize and unvectorize are mutual inverses in column-major       *)
(* order: unvectorize(vectorize(X), m, n) = X for an m x n array X,        *)
(* vectorize(unvectorize(v, m, n)) = v for a vector v of length m*n, and   *)
(* vectorize puts X[i][j] at index j*m+i (from 0).                         *)
(***************************************************************************)
C2_VectorizeRoundTrip ==
    /\ (Returned(1) /\ Called(1, "vectorize"))
       => LET X == calls[1].im
          IN  /\ rets[1].kind = "vector"
              /\ Len(rets[1].val) = Rows(X) * Cols(X)
              /\ \A i \in 1..Rows(X), j \in 1..Cols(X) :
                    rets[1].val[(j - 1) * Rows(X) + i] = X[i][j]
    /\ (Returned(2) /\ Called(1, "vectorize") /\ Called(2, "unvectorize")
           /\ calls[2].m = Rows(calls[1].im) /\ calls[2].n = Cols(calls[1].im))
       => rets[2] = Mat(calls[1].im)
    /\ (Returned(2) /\ Called(1, "unvectorize") /\ Called(2, "vectorize"))
       => rets[2] = Vec(calls[1].vec)

\* the round trip of a 2 x 2 array that differs from its transpose
C2_Witness ==
    /\ Returned(2) /\ Called(1, "vectorize") /\ Called(2, "unvectorize")
    /\ Rows(calls[1].im) = 2 /\ Cols(calls[1].im) = 2
    /\ calls[1].im[1][2] # calls[1].im[2][1]
    /\ calls[2].m = 2 /\ calls[2].n = 2
    /\ rets[2].kind = "matrix"

(***************************************************************************)
(* C3: for every n >= 1 and either value of normalized, haarMatrix(n,      *)
(* normalized) terminates and returns a square matrix of size N x N with   *)
(* N = 2^ceil(log2 n), in particular for n = 1.                            *)
(***************************************************************************)
C3_HaarMatrixReturnsNxN ==
    (Returned(1) /\ Called(1, "haarMatrix"))
    => /\ rets[1].kind = "matrix"
       /\ Rows(rets[1].val) = CeilPow2(calls[1].n)
       /\ \A i \in 1..Rows(rets[1].val) : Len(rets[1].val[i]) = CeilPow2(calls[1].n)

\* the same for n >= 2, where the recursion reaches the base case
HaarMatrixReturnsNxNFrom2 ==
    (Returned(1) /\ Called(1, "haarMatrix") /\ calls[1].n >= 2)
    => /\ rets[1].kind = "matrix"
       /\ Rows(rets[1].val) = CeilPow2(calls[1].n)
       /\ \A i \in 1..Rows(rets[1].val) : Len(rets[1].val[i]) = CeilPow2(calls[1].n)

(***************************************************************************)
(* C4: whenever haarMatrix(n, True) returns H of size N x N, H^T H is the  *)
(* identity.  The columns of haarMatrix(n, False) are pairwise orthogonal, *)
(* column 0 has squared norm N and column j >= 1 of level r (2^r <= j <    *)
(* 2^(r+1)) has squared norm N/2^r; the scales satisfy d[0]^2 = 1/N and    *)
(* d[j]^2 = 2^r/N.                                                         *)
(***************************************************************************)
\* the squared norm the claim gives column j (from 0) of the N x N matrix
ColumnNormSq(N, j) == IF j = 0 THEN Num(N) ELSE Rat(N, Pow2(Log2(j)))

C4_HaarOrthonormal ==
    (Returned(1) /\ Called(1, "haarMatrix") /\ rets[1].kind = "matrix")
    => LET H == rets[1].val
           N == Rows(H)
       IN  IF calls[1].normalized
           THEN /\ MatMul(Transpose(H), H) = eye(N)
                /\ \A j \in 0..(N - 1) :
                      NumMul(NumMul(haarD(N)[j + 1], haarD(N)[j + 1]), ColumnNormSq(N, j)) = One
           ELSE MatMul(Transpose(H), H) = diag([j \in 1..N |-> ColumnNormSq(N, j - 1)])

\* a normalized 8 x 8 Haar matrix has been returned
C4_Witness ==
    /\ Returned(1) /\ Called(1, "haarMatrix") /\ calls[1].normalized
    /\ rets[1].kind = "matrix"
    /\ Rows(rets[1].val) = 8

(***************************************************************************)
(* C5: for m >= 1 and odd width w <= m, blurMatrix(m, w) is symmetric and  *)
(* every row has at most 1 + ceil((w-1)/2) nonzero entries, each equal to  *)
(* 1/w.                                                                    *)
(***************************************************************************)
BlurRowsBounded(bound) ==
    LET T == rets[1].val
        w == calls[1].width
    IN  /\ T = Transpose(T)
        /\ Rows(T) = calls[1].m /\ Cols(T) = calls[1].m
        /\ \A i \in 1..Rows(T) :
              /\ NonZeros(T[i]) <= bound
              /\ \A j \in 1..Cols(T) : T[i][j] # Zero => T[i][j] = Rat(1, w)

OddWidthBlurReturned ==
    /\ Returned(1) /\ Called(1, "blurMatrix")
    /\ calls[1].width % 2 = 1 /\ calls[1].width <= calls[1].m

C5_BlurRowsHalfWindow ==
    OddWidthBlurReturned => BlurRowsBounded(1 + CeilHalf(calls[1].width - 1))

\* C5 as amended: every row has at most 1 + 2*ceil((w-1)/2) = w nonzero
\* entries, each equal to 1/w, and the matrix is symmetric
C5_BlurRowsFullWindow ==
    OddWidthBlurReturned => BlurRowsBounded(1 + 2 * CeilHalf(calls[1].width - 1))

\* a row away from the boundary with all w = 3 entries of its window
C5_Witness ==
    /\ OddWidthBlurReturned
    /\ calls[1].width = 3
    /\ \E i \in 1..Rows(rets[1].val) : NonZeros(rets[1].val[i]) = 3

(***************************************************************************)
(* C6: for every n >= 2, power of two or not, and every blur width, the    *)
(* operators B and H of genBH(n, blursize) map every vector of length n^2, *)
(* forward and adjoint, to a vector of length n^2 without a shape error.   *)
(***************************************************************************)
C6_OperatorsApplyToImages ==
    (Returned(2) /\ Called(1, "genBH") /\ Called(2, "apply") /\ calls[1].n >= 2
        /\ Len(calls[2].v) = calls[1].n * calls[1].n)
    => /\ rets[2].kind = "vector"
       /\ Len(rets[2].val) = calls[1].n * calls[1].n

\* the same for the blur operator alone, and for H when n is a power of two
OperatorsApplyWhenSizesAgree ==
    (Returned(2) /\ Called(1, "genBH") /\ Called(2, "apply")
        /\ (calls[2].o = "B" \/ IsPow2(calls[1].n)))
    => /\ rets[2].kind = "vector"
       /\ Len(rets[2].val) = calls[1].n * calls[1].n

(***************************************************************************)
(* C7: for n a power of two, n >= 2, and v of length n^2, the Haar         *)
(* operator of genBH(n, w) satisfies H.applyAdjoint(H.apply(v)) = v.       *)
(***************************************************************************)
C7_HaarAdjointInvertsApply ==
    (Returned(3) /\ Called(1, "genBH") /\ IsPow2(calls[1].n) /\ calls[1].n >= 2
        /\ Called(2, "apply") /\ calls[2].o = "H" /\ ~calls[2].adj
        /\ Called(3, "apply") /\ calls[3].o = "H" /\ calls[3].adj
        /\ rets[2].kind = "vector" /\ calls[3].v = rets[2].val)
    => rets[3] = Vec(calls[2].v)

\* the round trip of a vector without zero entries through the 4 x 4 Haar
\* factors
C7_Witness ==
    /\ Returned(3) /\ Called(1, "genBH") /\ calls[1].n = 4
    /\ Called(2, "apply") /\ calls[2].o = "H" /\ ~calls[2].adj
    /\ Called(3, "apply") /\ calls[3].o = "H" /\ calls[3].adj
    /\ rets[2].kind = "vector" /\ calls[3].v = rets[2].val
    /\ rets[2].val # calls[2].v
    /\ \A k \in 1..16 : calls[2].v[k] # Zero

(***************************************************************************)
(* C8: for every n >= 1, every blur width w >= 1 and every v of length     *)
(* n^2, the blur operator B returned by genBH(n, w) satisfies              *)
(* B.applyAdjoint(v) = B.apply(v).                                         *)
(***************************************************************************)
C8_BlurAdjointIsApply ==
    (Returned(1) /\ Called(1, "genBH"))
    => /\ rets[1].kind = "operators"
       /\ \A v \in VecInputs(calls[1].n * calls[1].n) :
             rmatvec(rets[1].val, "B", v) = matvec(rets[1].val, "B", v)

\* whenever genBH has returned the operators, B's adjoint application agrees
\* with its forward application on the same vector
BlurAdjointIsApplyWhenReturned ==
    (Returned(3) /\ Called(1, "genBH")
        /\ Called(2, "apply") /\ calls[2].o = "B" /\ ~calls[2].adj
        /\ Called(3, "apply") /\ calls[3].o = "B" /\ calls[3].adj
        /\ calls[3].v = calls[2].v)
    => /\ rets[3] = rets[2]
       /\ rets[3].kind = "vector"

(***************************************************************************)
(* C9: for m >= 1 and w >= 1, entry (i, j) of blurMatrix(m, w) is 1/w when *)
(* |i - j| <= ceil((w-1)/2) and 0 otherwise; for odd w every row i with    *)
(* halflen <= i < m - halflen sums to exactly 1 and every other row sums   *)
(* to strictly less than 1.                                                *)
(***************************************************************************)
C9_BlurEntries ==
    (Returned(1) /\ Called(1, "blurMatrix"))
    => LET T == rets[1].val
           m == calls[1].m
           w == calls[1].width
           h == CeilHalf(w - 1)
       IN  /\ rets[1].kind = "matrix"
           /\ Rows(T) = m
           /\ \A i \in 1..m :
                 /\ Len(T[i]) = m
                 /\ \A j \in 1..m :
                       T[i][j] = IF Abs(i - j) <= h THEN Rat(1, w) ELSE Zero
                 /\ w % 2 = 1 =>
                       IF h <= i - 1 /\ i - 1 < m - h
                       THEN NumSum(T[i]) = One
                       ELSE RatLess(NumSum(T[i]), One)

\* an odd width with both interior rows and truncated boundary rows
C9_Witness ==
    /\ Returned(1) /\ Called(1, "blurMatrix")
    /\ calls[1].width = 3 /\ calls[1].m = 5
    /\ NumSum(rets[1].val[1]) = Rat(2, 3)
    /\ NumSum(rets[1].val[3]) = One

====
